---- MODULE Spec2Model ----
(***************************************************************************)
(* A model of the cellium-mcp-client bridge: a local stdio MCP server      *)
(* whose handlers forward each call as JSON-RPC over HTTP to a remote      *)
(* endpoint.  The module follows the error-boundary client                 *)
(* (src/unnamed/part_004, version 1.1.3): the handlers registered by       *)
(* setupServer, withErrorBoundary, getSafeErrorResponse, makeHttpRequest,  *)
(* testConnection, connect, testConnectionInBackground and disconnect.     *)
(*                                                                         *)
(* The JavaScript runtime is single threaded and cooperative: a handler    *)
(* runs until it awaits network I/O.  Every action below is one such run:  *)
(* from the arrival of a message or the completion of an HTTP call to the  *)
(* next await of an HTTP call (or to the end of the handler).              *)
(***************************************************************************)
EXTENDS Integers, Sequences, FiniteSets, TLC

\* Number of handler invocations that may be in flight at once.
MaxInFlight == 2
\* Number of local messages (requests and notifications) the run receives.
MaxRequests == 2

Slots == 1..MaxInFlight

(***************************************************************************)
(* JSON values.  Every value is a record tagged by `json`; an object       *)
(* carries its members as further fields.  Reading an absent member of an  *)
(* object yields undefined, as in JavaScript.                              *)
(***************************************************************************)
JUndefined == [json |-> "undefined"]
JNull == [json |-> "null"]
JEmptyObject == [json |-> "object"]

\* JavaScript truthiness of the values above: objects are truthy.
Truthy(v) == v.json \notin {"undefined", "null"}

\* Property read v[name] of an object.
Member(v, name) == IF name \in DOMAIN v THEN v[name] ELSE JUndefined

\* The methods the local server answers (the request schemas).
ForwardedMethods == {"tools/list", "tools/call", "resources/list", "resources/read", "ping"}
Methods == {"initialize"} \cup ForwardedMethods

\* this.mcpProtocolVersion
mcpProtocolVersion == "2024-11-05"

\* The inbound requests of the run: one per forwarded method, and initialize
\* with the server's protocol version and with another one.
Requests ==
  {[method |-> "initialize", protocolVersion |-> v] : v \in {"2024-11-05", "2025-03-26"}}
  \cup {[method |-> "tools/list"], [method |-> "resources/list"], [method |-> "ping"]}
  \cup {[method |-> "tools/call", name |-> "x"]}
  \cup {[method |-> "resources/read", uri |-> "file:///a.txt"]}

(***************************************************************************)
(* The remote side.  A reply to an HTTP POST is either a network failure   *)
(* (fetch rejects) or a status line and a body text.                       *)
(***************************************************************************)
NetThrow == [net |-> "throw"]
Reply(status, statusText, body) ==
  [net |-> "reply", status |-> status, statusText |-> statusText, body |-> body]

\* A result of the shape the method's schema expects.
GoodResult(method) ==
  CASE method = "tools/list" -> [json |-> "object", tools |-> <<[name |-> "echo"]>>]
    [] method = "tools/call" ->
         [json |-> "object", content |-> <<[type |-> "text", text |-> "done"]>>]
    [] method = "resources/list" ->
         [json |-> "object", resources |-> <<[uri |-> "file:///a.txt"]>>]
    [] method = "resources/read" ->
         [json |-> "object",
          contents |-> <<[uri |-> "file:///a.txt", mimeType |-> "text/plain", text |-> "hello"]>>]
    [] OTHER -> JEmptyObject

\* A result of no method's shape.
BadResult == [json |-> "object", foo |-> 1]

\* The error object of the remote.
RemoteError == [json |-> "object", code |-> -32000, message |-> "boom"]

\* Body texts the remote may send in answer to `method`.
BodyNotJson == "<html>Bad Gateway</html>"
BodyNull == "null"
BodyNoMembers == "{jsonrpc:2.0,id:1}"
BodyError == "{jsonrpc:2.0,id:1,error:{code:-32000,message:boom}}"
BodyErrorAndResult == "{jsonrpc:2.0,id:1,result:GOOD,error:{code:-32000,message:boom}}"
BodyResult == "{jsonrpc:2.0,id:1,result:GOOD}"
BodyBadResult == "{jsonrpc:2.0,id:1,result:{foo:1}}"

Bodies ==
  {BodyNotJson, BodyNull, BodyNoMembers, BodyError, BodyErrorAndResult, BodyResult,
   BodyBadResult}

\* JSON.parse of a body text sent in answer to `method`: the parsed envelope,
\* or a SyntaxError.  GOOD stands for the text of GoodResult(method).
JSONparse(method, text) ==
  CASE text = BodyNotJson -> [ok |-> FALSE]
    [] text = BodyNull -> [ok |-> TRUE, value |-> JNull]
    [] text = BodyNoMembers -> [ok |-> TRUE, value |-> [json |-> "object"]]
    [] text = BodyError -> [ok |-> TRUE, value |-> [json |-> "object", error |-> RemoteError]]
    [] text = BodyErrorAndResult ->
         [ok |-> TRUE,
          value |-> [json |-> "object", result |-> GoodResult(method), error |-> RemoteError]]
    [] text = BodyResult ->
         [ok |-> TRUE, value |-> [json |-> "object", result |-> GoodResult(method)]]
    [] text = BodyBadResult ->
         [ok |-> TRUE, value |-> [json |-> "object", result |-> BadResult]]

\* What the remote may answer to one HTTP POST.
Replies ==
  {NetThrow}
  \cup {Reply(500, "Internal Server Error", BodyResult)}
  \cup {Reply(200, "OK", b) : b \in Bodies}

\* response.ok
ResponseOk(resp) == resp.status >= 200 /\ resp.status <= 299

\* String(n) for the status codes of Replies.
StatusText(n) == IF n = 200 THEN "200" ELSE "500"

(***************************************************************************)
(* Completions: a JavaScript evaluation either returns a value or throws.  *)
(***************************************************************************)
Return(v) == [ok |-> TRUE, value |-> v]
Throw(name, message) == [ok |-> FALSE, error |-> [name |-> name, message |-> message]]


(***************************************************************************)
(* Pure parts of the client.                                               *)
(***************************************************************************)

\* testConnection once the reply to its ping has arrived: it returns when the
\* status is 2xx and the parsed body has no truthy error member, and throws
\* otherwise (response.json() throws on a body that is not JSON, result.error
\* throws on a body that is the JSON null).
testConnection(resp) ==
  IF resp.net = "throw" THEN Throw("TypeError", "fetch failed")
  ELSE IF ~ResponseOk(resp)
    THEN Throw("Error", "Connection test failed: HTTP " \o StatusText(resp.status))
  ELSE LET p == JSONparse("ping", resp.body) IN
    IF ~p.ok THEN Throw("SyntaxError", "Unexpected token < in JSON at position 0")
    ELSE IF p.value.json = "null"
      THEN Throw("TypeError", "Cannot read properties of null (reading 'error')")
    ELSE IF Truthy(Member(p.value, "error"))
      THEN Throw("Error", "Connection test failed: " \o Member(p.value, "error").message)
    ELSE Return(JUndefined)

\* The error makeHttpRequest throws when its liveness check failed.
CannotConnect == Throw("Error", "Cannot connect to remote Cellium server")

\* Mutant of ForwardOutcome: a result that is present is returned before the
\* error member is looked at.
ForwardOutcome_ResultFirst(method, resp) ==
  IF resp.net = "throw" THEN Throw("TypeError", "fetch failed")
  ELSE IF ~ResponseOk(resp)
    THEN Throw("Error", "HTTP " \o StatusText(resp.status) \o ": " \o resp.statusText)
  ELSE LET p == JSONparse(method, resp.body) IN
    IF ~p.ok THEN Throw("Error", "Invalid JSON response from server")
    ELSE IF p.value.json = "null"
      THEN Throw("TypeError", "Cannot read properties of null (reading 'result')")
    ELSE IF Truthy(Member(p.value, "result")) THEN Return(Member(p.value, "result"))
    ELSE IF Truthy(Member(p.value, "error"))
      THEN Throw("Error", "Remote server error: " \o Member(p.value, "error").message)
    ELSE Return(Member(p.value, "result"))

\* makeHttpRequest once the reply to its POST has arrived: the completion of
\* the try block.  The arguments of the logDebug call after JSON.parse read
\* jsonResponse.result, which throws on a body that is the JSON null.
ForwardOutcome(method, resp) ==
  IF resp.net = "throw" THEN Throw("TypeError", "fetch failed")
  ELSE IF ~ResponseOk(resp)
    THEN Throw("Error", "HTTP " \o StatusText(resp.status) \o ": " \o resp.statusText)
  ELSE LET p == JSONparse(method, resp.body) IN
    IF ~p.ok THEN Throw("Error", "Invalid JSON response from server")
    ELSE IF p.value.json = "null"
      THEN Throw("TypeError", "Cannot read properties of null (reading 'result')")
    ELSE IF Truthy(Member(p.value, "error"))
      THEN Throw("Error", "Remote server error: " \o Member(p.value, "error").message)
    ELSE Return(Member(p.value, "result"))

\* Mutant of FlagAfterForward: the catch block does not clear the flag.
FlagAfterForward_Keeps(flag, fwd) == flag

\* The catch block of makeHttpRequest: the connected flag after a completion
\* `fwd` of the try block.
FlagAfterForward(flag, fwd) == IF fwd.ok THEN flag ELSE FALSE

\* Mutant of FlagAfterLivenessFailure: the failed check clears the flag.
FlagAfterLivenessFailure_Clears(flag) == FALSE

\* The catch block around the liveness check inside makeHttpRequest: it logs
\* and throws, and does not write the flag.
FlagAfterLivenessFailure(flag) == flag

\* The handler registered for a forwarded method, once makeHttpRequest has
\* completed with `fwd`: it returns the result, after evaluating the arguments
\* of its logDebug call (result.tools, result.resources: a TypeError when the
\* result is undefined).
coreHandler(method, fwd) ==
  IF ~fwd.ok THEN fwd
  ELSE IF method = "tools/list" /\ ~Truthy(fwd.value)
    THEN Throw("TypeError", "Cannot read properties of undefined (reading 'tools')")
  ELSE IF method = "resources/list" /\ ~Truthy(fwd.value)
    THEN Throw("TypeError", "Cannot read properties of undefined (reading 'resources')")
  ELSE fwd

\* The response of the initialize handler.
initResponse ==
  [json |-> "object",
   protocolVersion |-> mcpProtocolVersion,
   capabilities |-> [tools |-> JEmptyObject, resources |-> JEmptyObject],
   serverInfo |-> [name |-> "cellium-mcp-client", version |-> "1.1.3"]]

\* error instanceof Error ? error.message : 'Unknown error'
IsError(error) == error.name \in {"Error", "TypeError", "SyntaxError"}
errorMessage(error) == IF IsError(error) THEN error.message ELSE "Unknown error"

\* Mutant of getSafeErrorResponse: the cases of ping and tools/call are
\* missing, so both fall to the default.
getSafeErrorResponse_MissingCases(methodName, error) ==
  CASE methodName = "tools/list" -> [json |-> "object", tools |-> <<>>]
    [] methodName = "resources/list" -> [json |-> "object", resources |-> <<>>]
    [] methodName = "resources/read" ->
         [json |-> "object",
          contents |-> <<[uri |-> "", mimeType |-> "text/plain",
                          text |-> "Error reading resource: " \o errorMessage(error)]>>]
    [] OTHER -> [json |-> "object", error |-> errorMessage(error)]

\* Mutant of getSafeErrorResponse: the tools/call fallback lacks the error
\* flag.
getSafeErrorResponse_NoErrorFlag(methodName, error) ==
  CASE methodName = "tools/list" -> [json |-> "object", tools |-> <<>>]
    [] methodName = "resources/list" -> [json |-> "object", resources |-> <<>>]
    [] methodName = "tools/call" ->
         [json |-> "object",
          content |-> <<[type |-> "text",
                         text |-> "Error calling tool: " \o errorMessage(error)]>>]
    [] methodName = "resources/read" ->
         [json |-> "object",
          contents |-> <<[uri |-> "", mimeType |-> "text/plain",
                          text |-> "Error reading resource: " \o errorMessage(error)]>>]
    [] methodName = "ping" -> JEmptyObject
    [] OTHER -> [json |-> "object", error |-> errorMessage(error)]

getSafeErrorResponse(methodName, error) ==
  CASE methodName = "tools/list" -> [json |-> "object", tools |-> <<>>]
    [] methodName = "resources/list" -> [json |-> "object", resources |-> <<>>]
    [] methodName = "tools/call" ->
         [json |-> "object",
          content |-> <<[type |-> "text",
                         text |-> "Error calling tool: " \o errorMessage(error)]>>,
          isError |-> TRUE]
    [] methodName = "resources/read" ->
         [json |-> "object",
          contents |-> <<[uri |-> "", mimeType |-> "text/plain",
                          text |-> "Error reading resource: " \o errorMessage(error)]>>]
    [] methodName = "ping" -> JEmptyObject
    [] OTHER -> [json |-> "object", error |-> errorMessage(error)]

\* Mutant of withErrorBoundary: the catch block rethrows.
withErrorBoundary_Rethrows(methodName, h) ==
  IF h.ok THEN [threw |-> FALSE, success |-> TRUE, value |-> h.value]
  ELSE [threw |-> TRUE, success |-> FALSE, value |-> JUndefined]

\* Mutant of withErrorBoundary: the try block does not return the result.
withErrorBoundary_DropsResult(methodName, h) ==
  IF h.ok THEN [threw |-> FALSE, success |-> TRUE, value |-> JUndefined]
  ELSE [threw |-> FALSE, success |-> FALSE, value |-> getSafeErrorResponse(methodName, h.error)]

\* withErrorBoundary around a handler that completed with `h`: what the
\* wrapped handler hands to the local transport (threw: an exception leaves
\* the wrapper) and the success flag it gives logResponse.
withErrorBoundary(methodName, h) ==
  IF h.ok THEN [threw |-> FALSE, success |-> TRUE, value |-> h.value]
  ELSE [threw |-> FALSE, success |-> FALSE, value |-> getSafeErrorResponse(methodName, h.error)]


(***************************************************************************)
(* State.                                                                  *)
(***************************************************************************)
VARIABLES
  phase,             \* "new": constructed; "serving": connect() done;
                     \* "failed": connect() threw; "closed": disconnect() called
  isConnected,       \* this.isConnected: the remote answered the last check
  transportState,    \* this.transportState: connected, requestCount, errorCount
  activeRequests,    \* this.activeRequests: request id -> method
  keepAliveInterval, \* this.keepAliveInterval is set
  calls,             \* the handler invocations in flight, by slot
  probe,             \* testConnectionInBackground: "none", "inflight", "done"
  failPending,       \* history: a forward call has failed and no forwarded
                     \* invocation has entered makeHttpRequest since
  last,              \* history: what the last step did (the message received,
                     \* the liveness check answered, the invocation completed)
  retryAttempts,     \* this.config.retryAttempts
  host,              \* who constructed the client: "cli" (main of the command
                     \* line program) or "library" (a program that imports
                     \* the class and handles a rejected connect() itself)
  currentRetryCount, \* this.currentRetryCount (the retrying client)
  reconnectTimer,    \* this.reconnectTimer: 0 for undefined, else a timer id
  timers,            \* the setTimeout timers scheduled and neither fired nor
                     \* cleared, in the order they were scheduled
  connects,          \* connect() invocations awaiting testConnection, by caller
  exitCode,          \* "none" while the process runs, else its exit status
  retryLog,          \* history: timers scheduled and liveness checks started
                     \* so far, and whether a liveness check ever succeeded
  longRunning,       \* the request ids whose entry of activeRequests is more
                     \* than 30 seconds old (now - timing.start > 30000)
  endpoint           \* this.config.endpoint, as a sequence of characters

retryVars ==
  <<retryAttempts, host, currentRetryCount, reconnectTimer, timers, connects,
    exitCode, retryLog>>

vars ==
  <<phase, isConnected, transportState, activeRequests, keepAliveInterval,
    calls, probe, failPending, last, retryAttempts, host, currentRetryCount,
    reconnectTimer, timers, connects, exitCode, retryLog, longRunning, endpoint>>

\* The default of config.retryAttempts.
DefaultRetryAttempts == 3

Idle == [pc |-> "idle"]

\* Map.set and Map.delete on activeRequests.
MapSet(map, id, v) == [k \in DOMAIN map \cup {id} |-> IF k = id THEN v ELSE map[k]]
\* A delete that leaves the entry in the map.
MapDelete_Keeps(map, id) == map
MapDelete(map, id) == [k \in DOMAIN map \ {id} |-> map[k]]
EmptyMap == [k \in {} |-> "none"]

\* logRequest: counts the request and registers it as pending.
logRequestState(ts) == [ts EXCEPT !.requestCount = @ + 1]
\* A logResponse that counts every completion as an error.
logResponseState_CountsAll(ts, success) == [ts EXCEPT !.errorCount = @ + 1]
\* logResponse: counts a failure.
logResponseState(ts, success) == IF success THEN ts ELSE [ts EXCEPT !.errorCount = @ + 1]

\* No connect() in flight, no timer scheduled, no liveness check made.
NoConnects == [startup |-> 0, reconnect |-> 0]
EmptyRetryLog ==
  [scheduled |-> 0, checks |-> 0, everConnected |-> FALSE, disconnected |-> FALSE]

\* The fields after construction, whoever constructs the client.
Constructed ==
  /\ phase = "new"
  /\ isConnected = FALSE
  /\ transportState = [connected |-> FALSE, requestCount |-> 0, errorCount |-> 0]
  /\ activeRequests = EmptyMap
  /\ keepAliveInterval = FALSE
  /\ calls = [i \in Slots |-> Idle]
  /\ probe = "none"
  /\ failPending = FALSE
  /\ last = [path |-> "constructed"]
  /\ currentRetryCount = 0
  /\ reconnectTimer = 0
  /\ timers = <<>>
  /\ connects = NoConnects
  /\ exitCode = "none"
  /\ retryLog = EmptyRetryLog
  /\ longRunning = {}

\* The default of the --endpoint option, 'http://localhost:3000/mcp', with
\* the origin 'http://localhost:3000' written as the one character "h".
DefaultEndpoint == <<"h", "/", "m", "c", "p">>

\* The error-boundary client, constructed by the command line program with
\* the default retry and endpoint options.
Init ==
  /\ Constructed
  /\ retryAttempts = DefaultRetryAttempts
  /\ host = "cli"
  /\ endpoint = DefaultEndpoint

\* The counters and the pending request ids, as a step finds them (for the
\* history variable).
Snapshot ==
  [requestCount |-> transportState.requestCount,
   errorCount |-> transportState.errorCount,
   pending |-> DOMAIN activeRequests]

\* The slot a new invocation takes: the lowest idle one.
FreeSlot(i) == calls[i].pc = "idle" /\ \A j \in Slots : j < i => calls[j].pc # "idle"

\* The local transport delivers messages between connect() and disconnect().
CanReceive == phase = "serving" /\ transportState.requestCount < MaxRequests

(***************************************************************************)
(* connect(): the stdio transport is connected, the keep-alive interval    *)
(* starts and the background probe is fired without being awaited.         *)
(***************************************************************************)
Connect ==
  /\ phase = "new"
  /\ phase' = "serving"
  /\ transportState' = [transportState EXCEPT !.connected = TRUE]
  /\ keepAliveInterval' = TRUE
  /\ probe' = "inflight"
  /\ last' = [path |-> "connect"]
  /\ UNCHANGED <<isConnected, activeRequests, calls, failPending>>
  /\ UNCHANGED <<retryVars, endpoint>>
  /\ UNCHANGED longRunning

\* connect() when localServer.connect throws: the catch block rethrows.
ConnectFails ==
  /\ phase = "new"
  /\ phase' = "failed"
  /\ transportState' = [transportState EXCEPT !.connected = FALSE]
  /\ last' = [path |-> "connectfails"]
  /\ UNCHANGED <<isConnected, activeRequests, keepAliveInterval, calls, probe, failPending>>
  /\ UNCHANGED <<retryVars, endpoint>>
  /\ UNCHANGED longRunning

\* The outcomes of a liveness check over the replies of the remote.
LivenessOutcomes == {testConnection(resp).ok : resp \in Replies}

\* testConnectionInBackground once testConnection has completed: the flag
\* is set on success and cleared on failure.
ProbeFlag(ok) == ok

\* A probe whose failure fails the startup.
PhaseAfterProbe_FailsStartup(ph, ok) == IF ok THEN ph ELSE "failed"

\* The lifecycle after the probe: connect() does not await it, and
\* testConnectionInBackground catches its failure.
PhaseAfterProbe(ph, ok) == ph

ProbeReply ==
  /\ probe = "inflight"
  /\ \E ok \in LivenessOutcomes :
       /\ isConnected' = ProbeFlag(ok)
       /\ phase' = PhaseAfterProbe(phase, ok)
       /\ last' = [path |-> "probe", ok |-> ok]
  /\ probe' = "done"
  /\ UNCHANGED <<transportState, activeRequests, keepAliveInterval, calls,
                 failPending>>
  /\ UNCHANGED <<retryVars, endpoint>>
  /\ UNCHANGED longRunning

(***************************************************************************)
(* The initialize handler, wrapped by withErrorBoundary: it awaits nothing *)
(* and completes in the run that received the request.                     *)
(***************************************************************************)
\* An initialize handler that answers with the caller's protocol version.
initializeHandler_Negotiates(request) ==
  Return([initResponse EXCEPT !.protocolVersion = request.protocolVersion])

\* The initialize handler: a mismatch of the caller's protocol version is
\* logged, and the fixed response is returned.
initializeHandler(request) == Return(initResponse)

ReceiveInitialize ==
  /\ CanReceive
  /\ \E req \in Requests :
       /\ req.method = "initialize"
       /\ LET b == withErrorBoundary("initialize", initializeHandler(req)) IN
            /\ transportState' =
                 logResponseState(
                   [logRequestState(transportState) EXCEPT !.connected = TRUE], b.success)
            /\ last' = [path |-> "local", req |-> req, threw |-> b.threw,
                        success |-> b.success, returned |-> b.value,
                        before |-> Snapshot]
  /\ UNCHANGED <<phase, isConnected, activeRequests, keepAliveInterval, calls,
                 probe, failPending>>
  /\ UNCHANGED <<retryVars, endpoint>>
  /\ UNCHANGED longRunning

\* The id the notification is logged under (0: no invocation's slot).
NotificationId == 0

\* A notification handler that never logs its completion.
notificationPending_Leaks(map) == MapSet(map, NotificationId, "notifications/initialized")

\* The pending-request map over the notification handler: logRequest sets
\* the entry and logResponse deletes it, with no await in between.
notificationPending(map) ==
  MapDelete(MapSet(map, NotificationId, "notifications/initialized"), NotificationId)

\* The notifications/initialized handler (not wrapped, no response).
ReceiveInitialized ==
  /\ CanReceive
  /\ transportState' =
       logResponseState([logRequestState(transportState) EXCEPT !.connected = TRUE], TRUE)
  /\ activeRequests' = notificationPending(activeRequests)
  /\ last' = [path |-> "notification"]
  /\ UNCHANGED <<phase, isConnected, keepAliveInterval, calls, probe, failPending>>
  /\ UNCHANGED <<retryVars, endpoint>>
  /\ UNCHANGED longRunning

(***************************************************************************)
(* A forwarded method.                                                     *)
(***************************************************************************)
\* A makeHttpRequest that posts without looking at the flag.
EnterMakeHttpRequest_NeverChecks(flag) == "fetch"
\* A makeHttpRequest that checks liveness before every POST.
EnterMakeHttpRequest_AlwaysChecks(flag) == "ping"

\* The head of makeHttpRequest: with the flag false it awaits testConnection,
\* with the flag true it goes on to the POST without suspending.
EnterMakeHttpRequest(flag) == IF flag THEN "fetch" ELSE "ping"

\* withErrorBoundary receives a request for a forwarded method: logRequest,
\* then the handler runs into makeHttpRequest, up to its first await.  The
\* slot stands for the request id, a random string taken to differ from the
\* ids of the requests pending.
\* (config.debugMode has its default, false: the tools/list handler awaits no
\* debug timer first.)
Receive(i, req) ==
  /\ CanReceive
  /\ FreeSlot(i)
  /\ req.method \in ForwardedMethods
  /\ transportState' = logRequestState(transportState)
  /\ activeRequests' = MapSet(activeRequests, i, req.method)
  /\ LET pc == EnterMakeHttpRequest(isConnected) IN
       calls' = [calls EXCEPT ![i] = [pc |-> pc, req |-> req,
                                      pings |-> IF pc = "ping" THEN 1 ELSE 0,
                                      posts |-> IF pc = "fetch" THEN 1 ELSE 0,
                                      cancelled |-> 0]]
  /\ failPending' = FALSE
  /\ last' = [path |-> "enter", slot |-> i, req |-> req, connBefore |-> isConnected,
              afterFail |-> failPending, before |-> Snapshot]
  /\ longRunning' = longRunning \ {i}
  /\ UNCHANGED <<phase, isConnected, keepAliveInterval, probe>>
  /\ UNCHANGED <<retryVars, endpoint>>

\* A completion that closes the session when the call failed.
PhaseAfterCall_ClosesOnFailure(ph, success) == IF success THEN ph ELSE "closed"

\* The lifecycle after a wrapped handler completes: neither branch of
\* withErrorBoundary closes the local server or ends the process.
PhaseAfterCall(ph, success) == ph

\* A wrapper that keeps the method name in a field shared by all
\* invocations: the one of the oldest slot in flight.
methodNameOf_Shared(i) ==
  calls[CHOOSE j \in Slots : calls[j].pc # "idle" /\
                             \A k \in Slots : k < j => calls[k].pc = "idle"].req.method

\* The methodName of the invocation of slot i: an argument of
\* withErrorBoundary, closed over by the wrapped handler.
methodNameOf(i) == calls[i].req.method

\* The wrapped handler of slot i completes with the handler completion h:
\* logResponse, and the value handed to the local transport.
Complete(i, path, resp, fwd, h) ==
  LET c == calls[i]
      b == withErrorBoundary(methodNameOf(i), h)
  IN
    /\ phase' = PhaseAfterCall(phase, b.success)
    /\ transportState' = logResponseState(transportState, b.success)
    /\ activeRequests' = MapDelete(activeRequests, i)
    /\ longRunning' = longRunning \ {i}
    /\ calls' = [calls EXCEPT ![i] = Idle]
    /\ last' = [path |-> path, slot |-> i, req |-> c.req, reply |-> resp, outcome |-> fwd,
                threw |-> b.threw, success |-> b.success, returned |-> b.value,
                pings |-> c.pings, posts |-> c.posts, connBefore |-> isConnected,
                phaseBefore |-> phase, before |-> Snapshot]

\* The liveness check of slot i is answered.  On success the flag is set and
\* the POST is dispatched in the same run; on failure makeHttpRequest throws
\* and the flag is not written.
PingReply(i) ==
  /\ calls[i].pc = "ping"
  /\ \E ok \in LivenessOutcomes :
       IF ok
         THEN /\ isConnected' = TRUE
              /\ calls' = [calls EXCEPT ![i].pc = "fetch", ![i].posts = 1]
              /\ last' = [path |-> "pingok", slot |-> i, req |-> calls[i].req]
              /\ UNCHANGED <<phase, transportState, activeRequests, longRunning>>
         ELSE /\ isConnected' = FlagAfterLivenessFailure(isConnected)
              /\ Complete(i, "pingfail", NetThrow, CannotConnect, CannotConnect)
  /\ UNCHANGED <<keepAliveInterval, probe, failPending>>
  /\ UNCHANGED <<retryVars, endpoint>>

\* The POST of slot i is answered.
FetchReply(i) ==
  /\ calls[i].pc = "fetch"
  /\ \E resp \in Replies :
       LET fwd == ForwardOutcome(calls[i].req.method, resp)
           flag == FlagAfterForward(isConnected, fwd)
       IN /\ isConnected' = flag
          /\ failPending' = (failPending \/ ~fwd.ok)
          /\ Complete(i, "forward", resp, fwd, coreHandler(calls[i].req.method, fwd))
  /\ UNCHANGED <<keepAliveInterval, probe>>
  /\ UNCHANGED <<retryVars, endpoint>>

(***************************************************************************)
(* disconnect(): both flags are cleared, every pending request is logged   *)
(* as a failed completion and the map is cleared, the keep-alive interval  *)
(* is cleared and the local server is closed.  HTTP calls in flight are    *)
(* not aborted.                                                            *)
(***************************************************************************)
\* A disconnect() that leaves the cancelled entries in the map.
ClearPending_Keeps(map) == map

\* this.activeRequests.clear(), after the loop over the entries.
ClearPending(map) == EmptyMap

\* A disconnect() that leaves the keep-alive interval running.
clearKeepAlive_Leaves(handle) == handle

\* disconnect() on the keep-alive interval: clearInterval, and the handle
\* is dropped.
clearKeepAlive(handle) == FALSE

\* A disconnect() that awaits localServer.close() outside a try block: it
\* rejects when close() rejects.
disconnectResult_Propagates(closeOk) == IF closeOk THEN "resolved" ELSE "rejected"

\* How the promise of disconnect() settles when localServer.close() resolved
\* (closeOk) or rejected: the await is inside a try whose catch only logs.
disconnectResult(closeOk) == "resolved"

\* calls[i].cancelled counts the 'Cancelled due to disconnect' completions
\* logged for the invocation of slot i (history).  The cleanup runs before
\* the await of localServer.close(); what follows the await writes no field
\* and is folded into the step, with either outcome of close().
Disconnect ==
  /\ phase \in {"serving", "closed"}
  /\ phase' = "closed"
  /\ isConnected' = FALSE
  /\ transportState' =
       [transportState EXCEPT !.connected = FALSE,
                              !.errorCount = @ + Cardinality(DOMAIN activeRequests)]
  /\ calls' = [i \in Slots |->
                IF i \in DOMAIN activeRequests
                  THEN [calls[i] EXCEPT !.cancelled = @ + 1]
                  ELSE calls[i]]
  /\ activeRequests' = ClearPending(activeRequests)
  /\ keepAliveInterval' = clearKeepAlive(keepAliveInterval)
  /\ \E closeOk \in BOOLEAN :
       last' = [path |-> "disconnect", cancelled |-> DOMAIN activeRequests,
                phaseBefore |-> phase, closeOk |-> closeOk,
                result |-> disconnectResult(closeOk)]
  /\ longRunning' = {}
  /\ UNCHANGED <<probe, failPending>>
  /\ UNCHANGED <<retryVars, endpoint>>

Next ==
  \/ Connect
  \/ ConnectFails
  \/ ProbeReply
  \/ ReceiveInitialize
  \/ ReceiveInitialized
  \/ \E i \in Slots, req \in Requests : Receive(i, req)
  \/ \E i \in Slots : PingReply(i)
  \/ \E i \in Slots : FetchReply(i)
  \/ Disconnect

Spec == Init /\ [][Next]_vars


(***************************************************************************)
(* getSafeErrorResponse as a function of its two arguments: the second     *)
(* specification applies it to every method name and thrown value below.   *)
(***************************************************************************)
FallbackMethods == Methods \cup {"notifications/initialized", "unknown/method"}

\* Thrown values: Error instances, and strings (which are no Error instances).
ThrownValues ==
  {[name |-> n, message |-> m] :
     n \in {"Error", "TypeError", "SyntaxError", "string"},
     m \in {"Cannot connect to remote Cellium server", "fetch failed",
            "Remote server error: boom", "HTTP 500: Internal Server Error"}}

ApplyFallback(methodName, error) ==
  /\ last' = [path |-> "fallback", methodName |-> methodName, error |-> error,
              returned |-> getSafeErrorResponse(methodName, error)]
  /\ UNCHANGED <<phase, isConnected, transportState, activeRequests, keepAliveInterval,
                 calls, probe, failPending>>
  /\ UNCHANGED <<retryVars, endpoint>>
  /\ UNCHANGED longRunning

NextFallback == \E methodName \in FallbackMethods, error \in ThrownValues :
                  ApplyFallback(methodName, error)

SpecFallback == Init /\ [][NextFallback]_vars

(***************************************************************************)
(* The retrying client (version 1.0.0): connect() awaits the liveness      *)
(* check before it starts the local transport, and a failed connect()      *)
(* schedules a reconnect timer.  Its request handlers read isConnected and *)
(* write no field; they are left out.                                      *)
(***************************************************************************)
\* The liveness checks one run of the retrying client may start.
MaxChecks == 6

\* The values of retryAttempts: none, one, the default, and the 5 of the
\* README's example command line.
RetryAttemptsValues == {0, 1, DefaultRetryAttempts, 5}
Hosts == {"cli", "library"}

InitRetry ==
  /\ Constructed
  /\ retryAttempts \in RetryAttemptsValues
  /\ host \in Hosts
  /\ endpoint = DefaultEndpoint

\* The fields and the timer queue that connect(), handleConnectionError()
\* and reconnect() read and write within one run.
RetryState ==
  [currentRetryCount |-> currentRetryCount, reconnectTimer |-> reconnectTimer,
   timers |-> timers, scheduled |-> retryLog.scheduled, exitCode |-> exitCode]

\* process.exit(code): the first call ends the process.
processExit(r, code) == IF r.exitCode = "none" THEN [r EXCEPT !.exitCode = code] ELSE r

\* A handleConnectionError that compares with <= and so allows one attempt
\* more than retryAttempts.
handleConnectionError_OffByOne(r) ==
  IF r.exitCode # "none" THEN r
  ELSE IF r.currentRetryCount <= retryAttempts
    THEN LET id == r.scheduled + 1 IN
           [r EXCEPT !.currentRetryCount = @ + 1,
                     !.reconnectTimer = id,
                     !.timers = Append(@, id),
                     !.scheduled = id]
    ELSE [r EXCEPT !.exitCode = "1"]

\* handleConnectionError: below the cap it counts the attempt and sets a new
\* timer (a timer still pending is not cleared first); at the cap it ends
\* the process.  Nothing runs after process.exit.
handleConnectionError(r) ==
  IF r.exitCode # "none" THEN r
  ELSE IF r.currentRetryCount < retryAttempts
    THEN LET id == r.scheduled + 1 IN
           [r EXCEPT !.currentRetryCount = @ + 1,
                     !.reconnectTimer = id,
                     !.timers = Append(@, id),
                     !.scheduled = id]
    ELSE processExit(r, "1")

\* clearTimeout(this.reconnectTimer) when the field is set; clearing a timer
\* that has fired does nothing.
clearReconnectTimer(r) ==
  IF r.reconnectTimer # 0
    THEN [r EXCEPT !.timers = SelectSeq(@, LAMBDA t : t # r.reconnectTimer),
                   !.reconnectTimer = 0]
    ELSE r

\* connect() that clears the timer and leaves the counter as it is.
connectSucceeds_KeepsCount(r) == clearReconnectTimer(r)

\* connect() after testConnection resolved: the counter is reset and the
\* reconnect timer cleared (isConnected is set by the action).
connectSucceeds(r) == [clearReconnectTimer(r) EXCEPT !.currentRetryCount = 0]

\* What follows a connect() that threw, by its caller: reconnect() calls
\* handleConnectionError once more; main() of the command line program
\* exits with status 1; a library caller handles the rejection.
callerCatch(r, origin) ==
  CASE origin = "reconnect" -> handleConnectionError(r)
    [] origin = "startup" /\ host = "cli" -> processExit(r, "1")
    [] OTHER -> r

\* The caller (main, or the importing program) calls connect(): the
\* liveness check is dispatched.
StartupConnect ==
  /\ exitCode = "none"
  /\ phase = "new"
  /\ phase' = "connecting"
  /\ connects' = [connects EXCEPT !.startup = 1]
  /\ retryLog' = [retryLog EXCEPT !.checks = @ + 1]
  /\ last' = [path |-> "startup"]
  /\ UNCHANGED <<isConnected, transportState, activeRequests, keepAliveInterval, calls,
                 probe, failPending, retryAttempts, host, currentRetryCount,
                 reconnectTimer, timers, exitCode>>
  /\ UNCHANGED <<longRunning, endpoint>>

\* The oldest pending timer fires (all timers have the delay retryDelay, so
\* they fire in the order they were set): reconnect() calls connect(), which
\* dispatches a liveness check.  The field reconnectTimer keeps the id.
TimerFires ==
  /\ exitCode = "none"
  /\ timers # <<>>
  /\ retryLog.checks < MaxChecks
  /\ timers' = Tail(timers)
  /\ connects' = [connects EXCEPT !.reconnect = @ + 1]
  /\ retryLog' = [retryLog EXCEPT !.checks = @ + 1]
  /\ last' = [path |-> "timer", id |-> Head(timers), pendingBefore |-> Len(timers),
              inFlightBefore |-> connects.startup + connects.reconnect]
  /\ UNCHANGED <<phase, isConnected, transportState, activeRequests, keepAliveInterval,
                 calls, probe, failPending, retryAttempts, host, currentRetryCount,
                 reconnectTimer, exitCode>>
  /\ UNCHANGED <<longRunning, endpoint>>

\* The liveness check of a connect() called by `origin` is answered (ok),
\* and on success localServer.connect resolves (served) or throws.  The run
\* goes on through the catch blocks of connect() and of its caller.
ConnectReply(origin, ok, served) ==
  /\ exitCode = "none"
  /\ connects[origin] > 0
  /\ LET threw == ~(ok /\ served)
         r1 == IF ok THEN connectSucceeds(RetryState) ELSE RetryState
         r2 == IF threw THEN handleConnectionError(r1) ELSE r1
         r3 == IF threw THEN callerCatch(r2, origin) ELSE r2
     IN
       /\ isConnected' = ~threw
       /\ currentRetryCount' = r3.currentRetryCount
       /\ reconnectTimer' = r3.reconnectTimer
       /\ timers' = r3.timers
       /\ exitCode' = r3.exitCode
       /\ retryLog' = [retryLog EXCEPT !.scheduled = r3.scheduled,
                                       !.everConnected = @ \/ ok]
       /\ phase' = IF origin = "startup" THEN (IF threw THEN "failed" ELSE "serving")
                   ELSE phase
       /\ last' = [path |-> "connectreply", origin |-> origin, ok |-> ok,
                   served |-> served, countBefore |-> currentRetryCount,
                   pendingBefore |-> Len(timers),
                   pendingAfterCheck |-> Len(r1.timers),
                   exitedBy |-> IF r3.exitCode = "none" THEN "none"
                                ELSE IF r2.exitCode # "none" \/ origin = "reconnect"
                                  THEN "handleConnectionError"
                                ELSE "main"]
  /\ connects' = [connects EXCEPT ![origin] = @ - 1]
  /\ UNCHANGED <<transportState, activeRequests, keepAliveInterval, calls, probe,
                 failPending, retryAttempts, host>>
  /\ UNCHANGED <<longRunning, endpoint>>

\* disconnect() of the retrying client: the flag and the field
\* reconnectTimer are cleared and the local server is closed.  The command
\* line program calls it from its signal handlers and exits with status 0.
DisconnectRetry ==
  /\ exitCode = "none"
  /\ phase \in {"connecting", "serving", "failed"}
  /\ phase' = "closed"
  /\ isConnected' = FALSE
  /\ LET r == clearReconnectTimer(RetryState) IN
       /\ reconnectTimer' = r.reconnectTimer
       /\ timers' = r.timers
  /\ exitCode' = IF host = "cli" THEN "0" ELSE exitCode
  /\ last' = [path |-> "disconnect", cancelled |-> {}, phaseBefore |-> phase]
  /\ retryLog' = [retryLog EXCEPT !.disconnected = TRUE]
  /\ UNCHANGED <<transportState, activeRequests, keepAliveInterval, calls, probe,
                 failPending, retryAttempts, host, currentRetryCount, connects>>
  /\ UNCHANGED <<longRunning, endpoint>>

NextRetry ==
  \/ StartupConnect
  \/ TimerFires
  \/ \E origin \in {"startup", "reconnect"}, ok \in LivenessOutcomes :
       ConnectReply(origin, ok, TRUE)
  \/ \E origin \in {"startup", "reconnect"} : ConnectReply(origin, TRUE, FALSE)
  \/ DisconnectRetry

SpecRetry == InitRetry /\ [][NextRetry]_vars

(***************************************************************************)
(* The timers of the error-boundary client.  The constructor starts the    *)
(* transport-monitoring interval (every 10 s) and never clears it;         *)
(* connect() starts the keep-alive interval (every 30 s).  Their callbacks *)
(* only log.  This specification adds them, and the passing of time, to    *)
(* the client; the timers treat every method alike, so the requests here   *)
(* are pings.                                                              *)
(***************************************************************************)
\* More than 30 seconds pass: every entry of activeRequests is now older
\* than 30 seconds.
Elapse ==
  /\ activeRequests # EmptyMap
  /\ longRunning # DOMAIN activeRequests
  /\ longRunning' = DOMAIN activeRequests
  /\ last' = [path |-> "elapse"]
  /\ UNCHANGED <<phase, isConnected, transportState, activeRequests, keepAliveInterval,
                 calls, probe, failPending>>
  /\ UNCHANGED <<retryVars, endpoint>>

\* The requests the monitoring callback warns about: 'Long-running request
\* detected' for every entry older than 30 seconds.
LongRunningWarnings(map, old) == DOMAIN map \cap old

\* A monitoring callback that enforces a 30 second timeout by dropping the
\* entries it warns about.
monitorPending_Expires(map, old) == [k \in DOMAIN map \ old |-> map[k]]

\* The pending-request map after the monitoring callback: the loop over
\* activeRequests.entries() reads the entries and only logs.
monitorPending(map, old) == map

\* A callback of the monitoring interval.  The interval runs from
\* construction on, whatever the lifecycle.
MonitorTick ==
  /\ last' = [path |-> "monitor",
              warned |-> LongRunningWarnings(activeRequests, longRunning),
              pendingBefore |-> activeRequests, liveBefore |-> isConnected]
  /\ activeRequests' = monitorPending(activeRequests, longRunning)
  /\ UNCHANGED <<phase, isConnected, transportState, keepAliveInterval,
                 calls, probe, failPending, longRunning>>
  /\ UNCHANGED <<retryVars, endpoint>>

\* A callback of the keep-alive interval, while the interval is set.
KeepAliveTick ==
  /\ keepAliveInterval
  /\ last' = [path |-> "keepalive"]
  /\ UNCHANGED <<phase, isConnected, transportState, activeRequests, keepAliveInterval,
                 calls, probe, failPending, longRunning>>
  /\ UNCHANGED <<retryVars, endpoint>>

NextMonitor ==
  \/ Connect
  \/ ProbeReply
  \/ \E i \in Slots : Receive(i, [method |-> "ping"])
  \/ \E i \in Slots : PingReply(i)
  \/ \E i \in Slots : FetchReply(i)
  \/ Disconnect
  \/ Elapse
  \/ MonitorTick
  \/ KeepAliveTick

SpecMonitor == Init /\ [][NextMonitor]_vars

(***************************************************************************)
(* The outbound URL.  makeHttpRequest and testConnection each compute it   *)
(* from config.endpoint with String.prototype.replace and a string         *)
(* pattern, which replaces the first occurrence of the pattern.  Endpoints *)
(* are sequences of characters over a small alphabet that can spell        *)
(* '/sse'; "h" stands for any other text.                                  *)
(***************************************************************************)
\* The longest endpoint: long enough for '/sse' twice.
MaxLen == 8

Chars == {"h", "/", "s", "e"}
Endpoints == UNION {[1..n -> Chars] : n \in 0..MaxLen}

SsePath == <<"/", "s", "s", "e">>
McpPath == <<"/", "m", "c", "p">>

\* The position of the first occurrence of pat in s, 0 if there is none.
indexOf(s, pat) ==
  LET hits == {i \in 1..(Len(s) - Len(pat) + 1) : SubSeq(s, i, i + Len(pat) - 1) = pat}
  IN IF hits = {} THEN 0 ELSE CHOOSE i \in hits : \A j \in hits : i <= j

\* s.replace(pat, rep) with a string pattern: the first occurrence only.
replace(s, pat, rep) ==
  LET i == indexOf(s, pat)
  IN IF i = 0 THEN s
     ELSE SubSeq(s, 1, i - 1) \o rep \o SubSeq(s, i + Len(pat), Len(s))

\* mcpEndpoint of makeHttpRequest.
mcpEndpoint(e) == replace(e, SsePath, McpPath)

\* mcpEndpoint of testConnection.
testConnectionEndpoint(e) == replace(e, SsePath, McpPath)

\* A client constructed with any endpoint.
InitUrl ==
  /\ Constructed
  /\ retryAttempts = DefaultRetryAttempts
  /\ host = "cli"
  /\ endpoint \in Endpoints

\* makeHttpRequest computes the URL of its POST.
ForwardUrl ==
  /\ last' = [path |-> "url", caller |-> "makeHttpRequest", url |-> mcpEndpoint(endpoint)]
  /\ UNCHANGED <<phase, isConnected, transportState, activeRequests, keepAliveInterval,
                 calls, probe, failPending, longRunning>>
  /\ UNCHANGED <<retryVars, endpoint>>

\* testConnection computes the URL of its POST.
LivenessUrl ==
  /\ last' = [path |-> "url", caller |-> "testConnection",
              url |-> testConnectionEndpoint(endpoint)]
  /\ UNCHANGED <<phase, isConnected, transportState, activeRequests, keepAliveInterval,
                 calls, probe, failPending, longRunning>>
  /\ UNCHANGED <<retryVars, endpoint>>

NextUrl == ForwardUrl \/ LivenessUrl

SpecUrl == InitUrl /\ [][NextUrl]_vars

(***************************************************************************)
(* Properties.                                                             *)
(***************************************************************************)
\* The last step completed a handler invocation.
Completed == last.path \in {"local", "pingfail", "forward"}
\* The last step completed the invocation of a forwarded method.
CompletedForwarded == last.path \in {"pingfail", "forward"}
\* The last step handled the reply to a forward POST.
Forwarded == last.path = "forward"

\* The success shape of each method's result (section 6 of the specification).
HasShape(method, v) ==
  /\ v.json = "object"
  /\ CASE method = "tools/list" -> "tools" \in DOMAIN v
       [] method = "tools/call" -> "content" \in DOMAIN v
       [] method = "resources/list" -> "resources" \in DOMAIN v
       [] method = "resources/read" -> "contents" \in DOMAIN v
       [] method = "initialize" ->
            {"protocolVersion", "capabilities", "serverInfo"} \subseteq DOMAIN v
       [] OTHER -> TRUE

\* The reply is one of the failures of a forward call that the specification
\* lists: network throw, non-2xx status, RPC error object, unparsable body.
ListedFailure(resp) ==
  \/ resp.net = "throw"
  \/ /\ resp.net = "reply"
     /\ \/ ~ResponseOk(resp)
        \/ resp.body \in {BodyNotJson, BodyError, BodyErrorAndResult}

\* C1: every invocation of a wrapped handler, for every method and every
\* outcome of the remote interaction, completes normally: no exception
\* leaves the error boundary.
C1_NeverPropagates == Completed => ~last.threw

\* C1 witness: a forward call whose network call threw has completed.
C1_Witness == Forwarded /\ last.reply = NetThrow /\ ~last.threw

\* C2 (as claimed): the value a guarded handler of a forwarded method returns
\* always has the method's success shape, whatever the remote answered.
C2_AlwaysSuccessShape ==
  CompletedForwarded => HasShape(last.req.method, last.returned)

\* C3 (as claimed): a failed forward call leaves the flag false, and the next
\* invocation of a forwarded method issues one liveness check before its own
\* POST.
C3_NextCallRevalidates ==
  /\ (Forwarded /\ ~last.outcome.ok) => ~isConnected
  /\ (last.path = "enter" /\ last.afterFail) =>
       /\ calls[last.slot].pc = "ping"
       /\ calls[last.slot].pings = 1
       /\ calls[last.slot].posts = 0

\* C4, the parts that hold as claimed: an invocation that starts while the
\* flag is false sends a liveness ping first and no POST; when the ping
\* succeeds the flag is true and the POST is dispatched in the same step; a
\* ping invocation that went through the liveness check and got the remote's
\* result returns {}; when the ping fails no POST is ever dispatched and the
\* call fails with the connection-unavailable error.
C4_Common ==
  /\ (last.path = "enter" /\ ~last.connBefore) =>
       /\ calls[last.slot].pc = "ping"
       /\ calls[last.slot].pings = 1
       /\ calls[last.slot].posts = 0
  /\ last.path = "pingok" =>
       /\ isConnected
       /\ calls[last.slot].pc = "fetch"
       /\ calls[last.slot].posts = 1
  /\ (Forwarded /\ last.req.method = "ping" /\ last.pings = 1
        /\ last.reply = Reply(200, "OK", BodyResult)) =>
       last.returned = JEmptyObject
  /\ last.path = "pingfail" =>
       /\ last.pings = 1
       /\ last.posts = 0
       /\ last.outcome.error.message = "Cannot connect to remote Cellium server"
       /\ ~last.success

C5_FailureClearsFlag ==
  /\ (Forwarded /\ ListedFailure(last.reply)) =>
       /\ ~last.outcome.ok
       /\ ~last.success
       /\ ~isConnected
  /\ (Forwarded /\ last.req.method = "tools/list" /\ last.reply = NetThrow) =>
       last.returned = [json |-> "object", tools |-> <<>>]

\* C5 witness: tools/list whose network call threw, completed while the flag
\* was true.
C5_Witness ==
  Forwarded /\ last.req.method = "tools/list" /\ last.reply = NetThrow /\ last.connBefore

\* C6 (as claimed): a 2xx reply whose body is not JSON, or is JSON with
\* neither a result nor an error member, makes the forward call fail.
C6_MalformedFails ==
  (Forwarded /\ last.reply.net = "reply" /\ ResponseOk(last.reply)
     /\ last.reply.body \in {BodyNotJson, BodyNoMembers}) =>
    ~last.outcome.ok

\* C7: a non-2xx reply fails with the HTTP-status error whatever its body; a
\* 2xx body with an error object fails with 'Remote server error: <message>'
\* even when a result is present too; a result is returned only for a 2xx
\* reply without an error object.
C7_ResultOrFailure ==
  Forwarded =>
    /\ (last.reply.net = "reply" /\ ~ResponseOk(last.reply)) =>
         /\ ~last.outcome.ok
         /\ last.outcome.error.message = "HTTP 500: Internal Server Error"
    /\ (last.reply.net = "reply" /\ ResponseOk(last.reply)
          /\ last.reply.body \in {BodyError, BodyErrorAndResult}) =>
         /\ ~last.outcome.ok
         /\ last.outcome.error.message = "Remote server error: boom"
    /\ last.outcome.ok =>
         /\ last.reply.net = "reply"
         /\ last.reply.status = 200
         /\ last.reply.body \notin {BodyError, BodyErrorAndResult}
    /\ DOMAIN last.outcome \in {{"ok", "value"}, {"ok", "error"}}

\* C7 witness: a 2xx reply carrying both a result and an error object.
C7_Witness == Forwarded /\ last.reply = Reply(200, "OK", BodyErrorAndResult)

\* C8: when the wrapped handler succeeds, the value returned is the result
\* member of the remote's body, unchanged; tools/list with the remote result
\* {tools: [{name: "echo"}]} returns {tools: [{name: "echo"}]}.
C8_ResultUnchanged ==
  /\ (Forwarded /\ last.success) =>
       last.returned = Member(JSONparse(last.req.method, last.reply.body).value, "result")
  /\ (Forwarded /\ last.req.method = "tools/list"
        /\ last.reply = Reply(200, "OK", BodyResult)) =>
       last.returned = [json |-> "object", tools |-> <<[name |-> "echo"]>>]

\* C8 witness: tools/list answered with the remote's tool list.
C8_Witness ==
  Forwarded /\ last.req.method = "tools/list" /\ last.success
    /\ last.reply = Reply(200, "OK", BodyResult)

\* C9: the fallback is chosen by method name: tools/list gives an empty tool
\* collection, resources/list an empty resource collection, ping the empty
\* payload, and a method name other than the five forwarded ones the generic
\* {error: message}.
C9_FallbackByMethod ==
  last.path = "fallback" =>
    LET message == IF last.error.name = "string" THEN "Unknown error"
                   ELSE last.error.message
    IN
      /\ last.methodName = "tools/list" => last.returned = [json |-> "object", tools |-> <<>>]
      /\ last.methodName = "resources/list" =>
           last.returned = [json |-> "object", resources |-> <<>>]
      /\ last.methodName = "ping" => last.returned = JEmptyObject
      /\ last.methodName \notin ForwardedMethods =>
           last.returned = [json |-> "object", error |-> message]

\* C9 witness: the fallback of an unknown method name.
C9_Witness == last.path = "fallback" /\ last.methodName = "unknown/method"

\* C10: a failed tools/call returns one content item of type text whose text
\* is 'Error calling tool: ' and the failure message, with isError true; with
\* the remote's RPC error "boom" the text is
\* 'Error calling tool: Remote server error: boom'.
C10_ToolCallFallback ==
  (CompletedForwarded /\ last.req.method = "tools/call" /\ ~last.success) =>
    /\ last.returned =
         [json |-> "object",
          content |-> <<[type |-> "text",
                         text |-> "Error calling tool: " \o last.outcome.error.message]>>,
          isError |-> TRUE]
    /\ (Forwarded /\ last.reply = Reply(200, "OK", BodyError)) =>
         last.returned.content[1].text = "Error calling tool: Remote server error: boom"

\* C10 witness: tools/call answered with the RPC error "boom".
C10_Witness ==
  Forwarded /\ last.req.method = "tools/call" /\ last.reply = Reply(200, "OK", BodyError)

\* C11 (as claimed): a failed resources/read returns a single content item
\* whose uri is the URI of the request that failed (the empty string only
\* when the request carries none) and whose text explains the error.
C11_FailedReadNamesUri ==
  (CompletedForwarded /\ last.req.method = "resources/read" /\ ~last.success) =>
    /\ Len(last.returned.contents) = 1
    /\ last.returned.contents[1].uri =
         (IF "uri" \in DOMAIN last.req THEN last.req.uri ELSE "")
    /\ last.returned.contents[1].text =
         "Error reading resource: " \o last.outcome.error.message

\* The connect() attempts awaiting their liveness check.
InFlight == connects.startup + connects.reconnect

\* C12 (as claimed): while the remote has never answered a liveness check,
\* retries come one at a time (a retry is scheduled only after the previous
\* attempt has failed, so at most one timer or attempt is outstanding), and
\* the process exits with status 1 only after exactly retryAttempts retries
\* have been scheduled and have all fired.
C12_ExactlyNRetries ==
  ~retryLog.everConnected =>
    /\ Len(timers) + InFlight <= 1
    /\ exitCode = "1" => (retryLog.scheduled = retryAttempts /\ timers = <<>>)

\* C13 (as claimed): at most one retry timer is outstanding at any time, and
\* the one outstanding is the one the field reconnectTimer holds (a failure
\* that schedules a retry cancels and replaces the pending timer).
C13_OneTimerOutstanding ==
  /\ Len(timers) <= 1
  /\ \A k \in 1..Len(timers) : timers[k] = reconnectTimer

\* The last step completed a connect() of the retrying client successfully:
\* the liveness check succeeded and the local transport started.
ConnectedNow == last.path = "connectreply" /\ last.ok /\ last.served

\* C14: the retry counter is 0 after construction and 0 after every
\* successful connect(), whatever it was before: the budget left,
\* retryAttempts minus the counter, is the full retryAttempts again.
C14_CounterReset ==
  /\ last.path = "constructed" => currentRetryCount = 0
  /\ ConnectedNow =>
       /\ currentRetryCount = 0
       /\ retryAttempts - currentRetryCount = retryAttempts

\* C14 witness: a connect() succeeded after k failures were counted,
\* 0 < k < retryAttempts.
C14_Witness ==
  ConnectedNow /\ last.countBefore > 0 /\ last.countBefore < retryAttempts

\* C15 (as claimed): after a liveness check succeeds, connected is true and
\* no reconnect timer remains scheduled, on every path that makes one: the
\* background probe and the lazy check of the error-boundary client, the
\* startup connect() and the timer-driven reconnect() of the retrying
\* client (there, when localServer.connect resolves as well; the timers
\* are counted right after the success block of connect()).
C15_ConnectedAndNoTimer ==
  /\ ((last.path = "probe" /\ last.ok) \/ last.path = "pingok") =>
       (isConnected /\ timers = <<>>)
  /\ (last.path = "connectreply" /\ last.ok) =>
       /\ last.pendingAfterCheck = 0
       /\ last.served => (isConnected /\ timers = <<>>)

\* C16 (as claimed): a failed background probe is retried: with attempts
\* left it is counted and one retry timer is scheduled, and with the cap
\* exhausted the process exits with a non-zero status.
C16_ProbeFailureRetried ==
  (last.path = "probe" /\ ~last.ok) =>
    IF currentRetryCount < retryAttempts \/ timers # <<>>
      THEN Len(timers) = 1 /\ currentRetryCount \in 1..retryAttempts
      ELSE exitCode = "1"

\* C17: a failed invocation of a forwarded method (tools/list, tools/call,
\* resources/list, resources/read, ping) is answered with a value, leaves
\* the process running and leaves the local transport as it was: a client
\* that was serving is still serving, so it accepts the next call.
C17_FailuresNotFatal ==
  (CompletedForwarded /\ ~last.success) =>
    /\ ~last.threw
    /\ exitCode = "none"
    /\ phase = last.phaseBefore
    /\ keepAliveInterval = (phase = "serving")

\* C17 witness: a call is accepted after a call has failed.
C17_Witness ==
  last.path = "enter" /\ phase = "serving" /\ transportState.errorCount = 1

\* The handler invocations that have started and not yet completed.
InFlightCalls == {i \in Slots : calls[i].pc # "idle"}
PendingCount == Cardinality(DOMAIN activeRequests)

\* C18 (as claimed): in every state the size of the pending-request map is
\* the number of handler invocations started and not yet completed.
C18_SizeIsInFlight == PendingCount = Cardinality(InFlightCalls)

\* C18 (amended): until disconnect() is called the pending-request map holds
\* exactly the invocations in flight; from disconnect() on it is empty,
\* although the invocations it held go on until their HTTP call completes;
\* and it is empty whenever no invocation is in flight.
C18_MapTracksInFlight ==
  /\ phase # "closed" => DOMAIN activeRequests = InFlightCalls
  /\ phase = "closed" => activeRequests = EmptyMap
  /\ InFlightCalls = {} => activeRequests = EmptyMap

\* C18 witness: disconnect() was called while two invocations were in
\* flight, and one of them has completed since.
C18_Witness ==
  phase = "closed" /\ Cardinality(InFlightCalls) = 1 /\ CompletedForwarded

\* C19: a disconnect() logs one cancellation for each request pending when
\* it is called (none when none is pending) and leaves the map empty; over
\* any sequence of disconnect() calls, the two of one signal's two handlers
\* included, every invocation in flight at the first one has been reported
\* cancelled exactly once.
C19_CancelledOnce ==
  /\ last.path = "disconnect" =>
       /\ activeRequests = EmptyMap
       /\ last.phaseBefore = "serving" => last.cancelled = InFlightCalls
       /\ last.phaseBefore = "closed" => last.cancelled = {}
  /\ \A i \in InFlightCalls :
       calls[i].cancelled = (IF phase = "closed" THEN 1 ELSE 0)

\* C19 witness: a second disconnect() while two invocations cancelled by the
\* first are still in flight.
C19_Witness ==
  /\ last.path = "disconnect"
  /\ last.phaseBefore = "closed"
  /\ Cardinality(InFlightCalls) = 2

\* The step handles the reply to an HTTP call (liveness check or POST) of an
\* invocation that was in flight when disconnect() was called.
LateReply ==
  /\ phase = "closed"
  /\ last'.path \in {"pingok", "pingfail", "forward"}

\* C20 (as claimed): the completion of an HTTP call that was in flight at
\* disconnect() is discarded: it changes neither the pending-request map nor
\* the connection state (the connected flags, requestCount, errorCount).
C20_LateCompletionDiscarded ==
  [][LateReply =>
       /\ activeRequests' = activeRequests
       /\ transportState' = transportState
       /\ isConnected' = isConnected]_vars

\* The HTTP calls outstanding: the liveness checks and POSTs of the
\* invocations in flight, and the background probe.
HttpOutstanding ==
  Cardinality({i \in Slots : calls[i].pc \in {"ping", "fetch"}})
    + (IF probe = "inflight" THEN 1 ELSE 0)

\* C21: a step that handles initialize dispatches no HTTP call (no liveness
\* check, no POST: the invocations in flight, the probe and the remote flag
\* are as before) and returns protocol version '2024-11-05' with tools and
\* resources capabilities, whatever the remote flag and whatever protocol
\* version the caller declared.
C21_InitializeLocal ==
  [][last'.path = "local" =>
       /\ calls' = calls /\ probe' = probe /\ isConnected' = isConnected
       /\ HttpOutstanding' = HttpOutstanding
       /\ ~last'.threw /\ last'.success
       /\ last'.returned.protocolVersion = "2024-11-05"
       /\ {"tools", "resources"} \subseteq DOMAIN last'.returned.capabilities]_vars

\* C21 witness: initialize declaring another protocol version was answered
\* while the remote flag was false and the background probe in flight.
C21_Witness ==
  /\ last.path = "local"
  /\ last.req.protocolVersion # mcpProtocolVersion
  /\ ~isConnected
  /\ probe = "inflight"

\* C22: a step that handles notifications/initialized dispatches no HTTP
\* call and hands no response to the transport; it changes the connection
\* state record only (requestCount and the transport-connected flag), and
\* the pending-request map is the same after it as before.
C22_NotificationFrame ==
  [][last'.path = "notification" =>
       /\ activeRequests' = activeRequests
       /\ calls' = calls /\ probe' = probe
       /\ HttpOutstanding' = HttpOutstanding
       /\ "returned" \notin DOMAIN last'
       /\ isConnected' = isConnected
       /\ phase' = phase /\ keepAliveInterval' = keepAliveInterval
       /\ transportState' = [transportState EXCEPT !.requestCount = @ + 1,
                                                   !.connected = TRUE]]_vars

\* C22 witness: the notification was handled while a request was pending
\* and the remote flag was false.
C22_Witness ==
  last.path = "notification" /\ activeRequests # EmptyMap /\ ~isConnected

\* C23: connect() completes with the local transport ready while the
\* background probe is still in flight, and the probe's outcome, success or
\* failure, leaves the lifecycle and the local transport as they were.
C23_ConnectDoesNotWait ==
  [][/\ last'.path = "connect" =>
          (phase' = "serving" /\ transportState'.connected /\ probe' = "inflight")
     /\ last'.path = "probe" =>
          (phase' = phase /\ transportState' = transportState
           /\ keepAliveInterval' = keepAliveInterval)]_vars

\* C23 witness: a forwarded call was received and answered while the probe
\* was still in flight.
C23_Witness ==
  CompletedForwarded /\ probe = "inflight" /\ phase = "serving"

\* The liveness checks outstanding: those of the invocations in flight, and
\* the background probe.
LivenessOutstanding ==
  Cardinality({i \in Slots : calls[i].pc = "ping"})
    + (IF probe = "inflight" THEN 1 ELSE 0)

\* C24: a liveness check is issued only by connect() (the one background
\* probe) and by a forwarded call that finds the remote flag false on entry,
\* one per such call and one at a time; the callbacks of the two intervals
\* and the passing of time issue none.  So the checks issued are at most 1
\* plus the forwarded calls that started disconnected.
C24_NoScheduledChecks ==
  [][/\ LivenessOutstanding' > LivenessOutstanding =>
          /\ LivenessOutstanding' = LivenessOutstanding + 1
          /\ \/ last'.path = "connect" /\ probe = "none"
             \/ last'.path = "enter" /\ ~isConnected
     /\ last'.path \in {"monitor", "keepalive", "elapse"} =>
          (calls' = calls /\ probe' = probe)
     /\ \A i \in Slots :
          calls'[i].pc # "idle" =>
            /\ calls'[i].pings \in {0, 1}
            /\ calls'[i].pc = "ping" => calls'[i].pings = 1]_vars

\* C24 witness: the monitoring callback ran while the client was serving
\* with the remote flag false, and no liveness check is outstanding.
C24_Witness ==
  /\ last.path = "monitor"
  /\ phase = "serving"
  /\ ~isConnected
  /\ LivenessOutstanding = 0

\* C25: a handler invocation adds exactly 1 to requestCount and registers
\* one pending request on entry; on exit its request is no longer pending,
\* whether it succeeded or failed, requestCount is untouched, and errorCount
\* grows by exactly 1 if it failed and not at all if it succeeded.
\* (initialize enters and exits in one step.)
C25_Bookkeeping ==
  /\ last.path = "enter" =>
       /\ transportState.requestCount = last.before.requestCount + 1
       /\ transportState.errorCount = last.before.errorCount
       /\ last.slot \notin last.before.pending
       /\ DOMAIN activeRequests = last.before.pending \cup {last.slot}
  /\ CompletedForwarded =>
       /\ transportState.requestCount = last.before.requestCount
       /\ transportState.errorCount =
            last.before.errorCount + (IF last.success THEN 0 ELSE 1)
       /\ DOMAIN activeRequests = last.before.pending \ {last.slot}
  /\ last.path = "local" =>
       /\ transportState.requestCount = last.before.requestCount + 1
       /\ transportState.errorCount =
            last.before.errorCount + (IF last.success THEN 0 ELSE 1)
       /\ DOMAIN activeRequests = last.before.pending

\* C25 witness: an invocation failed while another request was pending.
C25_Witness == CompletedForwarded /\ ~last.success /\ activeRequests # EmptyMap

\* What the invocation of `method` returns when its own HTTP exchange ended
\* as the step `path` with the reply `resp`.
OwnReturn(method, path, resp) ==
  LET h == IF path = "pingfail" THEN CannotConnect
           ELSE coreHandler(method, ForwardOutcome(method, resp))
  IN withErrorBoundary(method, h).value

\* C26: the completion of an invocation returns the result, or the fallback
\* for the failure, of that invocation's own request and own HTTP reply, and
\* leaves every other invocation in flight as it was, still awaiting its own
\* reply; invocations complete in any order.
C26_NoCrossTalk ==
  [][last'.path \in {"pingfail", "forward"} =>
       LET i == last'.slot IN
         /\ calls[i].pc # "idle"
         /\ last'.req = calls[i].req
         /\ last'.returned = OwnReturn(calls[i].req.method, last'.path, last'.reply)
         /\ \A j \in Slots \ {i} : calls'[j] = calls[j]]_vars

\* C26 witness: of two invocations of different methods the one that started
\* second has completed successfully while the first still awaits its reply.
C26_Witness ==
  /\ Forwarded /\ last.success
  /\ last.slot = 2
  /\ transportState.requestCount = 2
  /\ calls[1].pc = "fetch"
  /\ calls[1].req.method # last.req.method

\* C27: the keep-alive interval is active in every state in which connect()
\* has succeeded and disconnect() has not been invoked since, and it is not
\* active once disconnect() has run.
C27_KeepAliveWhileServing ==
  /\ phase = "serving" => keepAliveInterval
  /\ phase = "closed" => ~keepAliveInterval

\* C27 witness: disconnect() has just run on a client that was serving and
\* had handled requests.
C27_Witness ==
  /\ last.path = "disconnect"
  /\ last.phaseBefore = "serving"
  /\ transportState.requestCount > 0
  /\ ~keepAliveInterval

EndsWith(s, suf) ==
  Len(s) >= Len(suf) /\ SubSeq(s, Len(s) - Len(suf) + 1, Len(s)) = suf

\* The endpoint with a trailing '/sse' replaced by '/mcp', and unchanged when
\* it does not end in '/sse'.
SuffixRewritten(e) ==
  IF EndsWith(e, SsePath)
    THEN SubSeq(e, 1, Len(e) - Len(SsePath)) \o McpPath
    ELSE e

\* C29: the URL that the forward call and the liveness check post to is the
\* endpoint with a trailing '/sse' replaced by '/mcp': an endpoint that does
\* not end in '/sse' is used unchanged, and an earlier '/sse' is left alone.
C29_SuffixRewritten ==
  last.path = "url" => last.url = SuffixRewritten(endpoint)

\* The last step dispatched the forward POST of slot last.slot: on entry with
\* the flag found true, or in the run that handled a successful liveness
\* check.
Dispatched ==
  \/ last.path = "enter" /\ calls[last.slot].pc = "fetch"
  \/ last.path = "pingok"

\* C30: in the state in which a forward POST has just been dispatched the
\* remote-connected flag is true, whatever concurrent failures, probe
\* failures or disconnect() did before; the invocation has posted once.
C30_DispatchedWhileConnected ==
  Dispatched => isConnected /\ calls[last.slot].posts = 1

\* C30 witness: a POST dispatched after a liveness check that this invocation
\* awaited, in a session in which an earlier call had failed and another
\* invocation is in flight.
C30_Witness ==
  /\ last.path = "pingok"
  /\ isConnected
  /\ transportState.errorCount > 0
  /\ \E j \in Slots \ {last.slot} : calls[j].pc # "idle"

\* C31: once disconnect() has been invoked the remote-connected flag is
\* false, in that state and in every later one.
C31_FlagStaysFalse ==
  phase = "closed" => ~isConnected

\* C32: in the state right after a forward call has completed successfully
\* on a client that is serving, the remote-connected flag is true.
C32_SuccessLeavesFlagTrue ==
  Forwarded /\ last.outcome.ok /\ phase = "serving" => isConnected

\* C33: errorCount is at most requestCount in every reachable state.
C33_ErrorsAtMostRequests ==
  transportState.errorCount <= transportState.requestCount

\* C34: once disconnect() has run the client holds no active timer: the
\* keep-alive interval and the reconnect timer are cleared, and no callback
\* of the keep-alive or of the monitoring interval runs any more.
C34_NoTimerAfterDisconnect ==
  phase = "closed" =>
    /\ ~keepAliveInterval
    /\ reconnectTimer = 0
    /\ last.path \notin {"monitor", "keepalive"}

\* The last step handled the answer to a liveness check of the retrying
\* client's connect(), and that connect() threw.
ConnectFailed == last.path = "connectreply" /\ ~(last.ok /\ last.served)

\* C35: in the retrying client the attempt counter never exceeds
\* retryAttempts; handleConnectionError ends the process only in a run in
\* which a connect() has just failed, with the counter equal to
\* retryAttempts; with retryAttempts = 0 the first failed connect() ends the
\* process with status 1, without a timer being set.
C35_CounterCapped ==
  /\ currentRetryCount <= retryAttempts
  /\ last.path = "connectreply" /\ last.exitedBy = "handleConnectionError" =>
       /\ ConnectFailed
       /\ currentRetryCount = retryAttempts
       /\ exitCode = "1"
  /\ exitCode = "1" =>
       last.path = "connectreply" /\ last.exitedBy # "none"
  /\ retryAttempts = 0 /\ ConnectFailed =>
       /\ last.exitedBy = "handleConnectionError"
       /\ exitCode = "1"
       /\ retryLog.scheduled = 0 /\ timers = <<>>

\* C35 witness: with retryAttempts = 3 the retry controller has ended the
\* process after a failed reconnect, the counter being 3.
C35_Witness ==
  /\ retryAttempts = DefaultRetryAttempts
  /\ ConnectFailed
  /\ last.origin = "reconnect"
  /\ last.exitedBy = "handleConnectionError"
  /\ currentRetryCount = DefaultRetryAttempts
  /\ exitCode = "1"

\* C36: in the retrying client, once disconnect() has been invoked no retry
\* timer is pending (none is left over and none is scheduled) and no timer
\* fires to start a reconnect attempt.
C36_NoReconnectAfterDisconnect ==
  retryLog.disconnected => timers = <<>> /\ last.path # "timer"

\* The last step was disconnect() of the error-boundary client.
Disconnected == last.path = "disconnect" /\ "closeOk" \in DOMAIN last

\* C37: disconnect() of the error-boundary client resolves whether closing
\* the local server succeeded or failed, and in either case both connected
\* flags are false, the pending map is empty, and the reconnect timer and the
\* keep-alive interval are cleared.
C37_DisconnectCompletes ==
  Disconnected =>
    /\ last.result = "resolved"
    /\ ~isConnected /\ ~transportState.connected
    /\ activeRequests = EmptyMap
    /\ reconnectTimer = 0 /\ timers = <<>>
    /\ ~keepAliveInterval

\* C37 witness: a disconnect() whose close of the local server failed, on a
\* serving client with a request pending.
C37_Witness ==
  /\ Disconnected
  /\ ~last.closeOk
  /\ last.phaseBefore = "serving"
  /\ last.cancelled # {}

====
